---- MODULE Spec2Model ----
(***************************************************************************)
(* Model of shortyio (src/src/main.rs): the egui form, the request bridge  *)
(* between the UI thread (ShortyApp::update, one call per frame) and the   *)
(* detached worker threads started by ShortyApp::create_short_link, the    *)
(* egui temp-data map used as the mailbox between them, and the settings   *)
(* file.                                                                   *)
(*                                                                         *)
(* Strings that the program only stores and copies are atoms; strings that *)
(* the program builds (format!) or takes apart (JSON) are sequences of     *)
(* tokens.  Option<T> is a sequence of length at most one.                 *)
(***************************************************************************)
EXTENDS Integers, Sequences, FiniteSets, TLC

\* ---------------------------------------------------------------- bounds
\* Number of worker threads started in one run.
MaxTasks == 2
\* Number of field edits (form and settings) in one run.
MaxEdits == 1

\* ---------------------------------------------------------------- Option
None == <<>>
Some(x) == <<x>>

\* ------------------------------------------------- input alphabets (small)
ApiKeys == {"", "k"}
Domains == {"", "d"}
\* A URL text is the sequence of its scheme prefix and its remainder; the
\* empty text is the empty sequence.
EmptyText == <<>>
Urls == {EmptyText, <<"https://", "a">>}
Paths == {"", "p"}
Passwords == {"", "pw"}
ClicksTexts == {"", "100", "abc"}
RedirectTypes == {301, 308}

\* Clipboard at startup: unreadable (None) or a text that is a URL; the
\* startup specification below draws from more.
ClipboardTexts == {<<"https://", "a">>}
Clipboards == {None} \cup {Some(c) : c \in ClipboardTexts}

\* ------------------------------------------------------------ JSON tokens
\* A JSON object is the token sequence <<"{", k1, v1, ..., kn, vn, "}">>;
\* any other token sequence is text that is not a JSON object.
IsObject(b) == /\ Len(b) >= 2
               /\ Len(b) % 2 = 0
               /\ b[1] = "{"
               /\ b[Len(b)] = "}"

Pairs(b) == 1..((Len(b) - 2) \div 2)

HasField(b, k) == \E i \in Pairs(b) : b[2 * i] = k

Field(b, k) == b[2 * (CHOOSE i \in Pairs(b) : b[2 * i] = k) + 1]

\* ParseLinkResponse with the two renames crossed.
ParseLinkResponseCrossed(b) ==
    IF ~IsObject(b) THEN [ok |-> FALSE, err |-> "expected value"]
    ELSE IF ~HasField(b, "shortURL")
         THEN [ok |-> FALSE, err |-> "missing field shortURL"]
    ELSE IF ~HasField(b, "originalURL")
         THEN [ok |-> FALSE, err |-> "missing field originalURL"]
    ELSE [ok |-> TRUE,
          link |-> [short_url |-> Field(b, "originalURL"),
                    original_url |-> Field(b, "shortURL")]]

\* serde_json::from_str::<LinkResponse>: shortURL -> short_url,
\* originalURL -> original_url, every other field ignored.
ParseLinkResponse(b) ==
    IF b = <<>> THEN [ok |-> FALSE, err |-> "EOF while parsing a value"]
    ELSE IF ~IsObject(b) THEN [ok |-> FALSE, err |-> "expected value"]
    ELSE IF ~HasField(b, "shortURL")
         THEN [ok |-> FALSE, err |-> "missing field shortURL"]
    ELSE IF ~HasField(b, "originalURL")
         THEN [ok |-> FALSE, err |-> "missing field originalURL"]
    ELSE [ok |-> TRUE,
          link |-> [short_url |-> Field(b, "shortURL"),
                    original_url |-> Field(b, "originalURL")]]

\* SerializeConfig with the two values under each other's key.
SerializeConfigSwapped(c) == <<"{", "api_key", c.domain, "domain", c.api_key, "}">>

\* impl Serialize for Config, through serde_json::to_string_pretty.
SerializeConfig(c) == <<"{", "api_key", c.api_key, "domain", c.domain, "}">>

\* impl Deserialize for Config, through ConfigHelper; .ok() drops the error.
DeserializeConfig(b) ==
    IF IsObject(b) /\ HasField(b, "api_key") /\ HasField(b, "domain")
    THEN Some([api_key |-> Field(b, "api_key"), domain |-> Field(b, "domain")])
    ELSE None

\* Config::load: a missing or unreadable file, or unparsable content, is None.
ConfigLoad(file) == IF file = None THEN None ELSE DeserializeConfig(file[1])

\* Settings files that can be on disk at startup.
InitialFiles ==
    {None,
     Some(SerializeConfig([api_key |-> "k", domain |-> ""]))}

\* Settings files for the startup specification: missing, not JSON, a JSON
\* object without the domain field, and every pair as Config::save writes it.
StartupFiles ==
    {None, Some(<<"not json">>), Some(<<"{", "api_key", "k", "}">>)}
    \cup {Some(SerializeConfig([api_key |-> k, domain |-> d])) :
            k \in ApiKeys, d \in Domains}

\* Clipboards for the startup specification: unreadable, empty, and texts
\* with and without one of the two prefixes at their start.
StartupClipboards ==
    {None, Some(EmptyText), Some(<<"not a url">>),
     Some(<<"http://", "example.com/x">>), Some(<<"https://", "example.com/x">>),
     Some(<<"ftp://", "example.com/x">>), Some(<<"HTTPS://", "example.com/x">>),
     Some(<<"see ", "https://", "example.com/x">>)}

\* ------------------------------------------------------------ HTTP replies
Statuses == {200, 404}

Bodies ==
    {<<"{", "originalURL", "https://a", "}">>,
     <<"{", "idString", "x", "originalURL", "https://a", "shortURL", "https://s/1", "}">>}

TransportErrors == {"error sending request"}

\* What client.post(..).send().await can return: Err(e), or Ok(resp) with
\* the status line read and the body still to come.
Responses ==
    {[kind |-> "err", status |-> 0, err |-> e] : e \in TransportErrors}
    \cup
    {[kind |-> "resp", status |-> s, err |-> ""] : s \in Statuses}

\* StatusCode::is_success
IsSuccess(status) == status >= 200 /\ status < 300

\* The body as the server sent it and whether reading it succeeds; a
\* transport error has no body.
NoBody == [text |-> <<>>, read_ok |-> TRUE]

UnreadBody == <<"{", "originalURL", "https://a", "}">>

\* Bodies of the non-2xx replies: one that would parse as a LinkResponse.
ErrorBodies ==
    {<<"{", "idString", "x", "originalURL", "https://a", "shortURL", "https://s/1", "}">>}

BodyReads(resp) ==
    IF resp.kind = "resp"
    THEN {[text |-> b, read_ok |-> TRUE] :
            b \in IF IsSuccess(resp.status) THEN Bodies ELSE ErrorBodies}
         \cup {[text |-> UnreadBody, read_ok |-> FALSE]}
    ELSE {NoBody}

\* Display of StatusCode: the number, a space, the canonical reason.
StatusDisplay(status) ==
    <<ToString(status), " ",
      CASE status = 200 -> "OK"
        [] status = 404 -> "Not Found"
        [] OTHER -> "<unknown status code>">>

\* ------------------------------------------------------------- ShortyApp
\* str::starts_with on a tokenised text
StartsWith(text, prefix) == Len(text) >= 1 /\ text[1] = prefix

\* str::parse::<i32> followed by .ok()
ParseI32(text) == IF text = "100" THEN Some(100) ELSE None

\* ShortyAppDefault whose filter knows the https:// prefix only.
ShortyAppDefaultHttpsOnly(file, clip) ==
    LET config == ConfigLoad(file)
        prefill == IF clip # None /\ StartsWith(clip[1], "https://")
                   THEN clip[1] ELSE EmptyText
    IN [api_key |-> IF config = None THEN "" ELSE config[1].api_key,
        domain |-> IF config = None THEN "" ELSE config[1].domain,
        original_url |-> prefill,
        custom_path |-> "",
        cloaking |-> FALSE,
        password |-> "",
        password_contact |-> FALSE,
        clicks_limit |-> "",
        redirect_type |-> 301,
        result |-> None,
        error |-> None,
        loading |-> FALSE,
        show_settings |-> FALSE]

\* impl Default for ShortyApp: the state after construction, from the
\* settings file and the clipboard found at startup.
ShortyAppDefault(file, clip) ==
    LET config == ConfigLoad(file)
        prefill == IF /\ clip # None
                      /\ \/ StartsWith(clip[1], "http://")
                         \/ StartsWith(clip[1], "https://")
                   THEN clip[1] ELSE EmptyText
    IN [api_key |-> IF config = None THEN "" ELSE config[1].api_key,
        domain |-> IF config = None THEN "" ELSE config[1].domain,
        original_url |-> prefill,
        custom_path |-> "",
        cloaking |-> FALSE,
        password |-> "",
        password_contact |-> FALSE,
        clicks_limit |-> "",
        redirect_type |-> 301,
        result |-> None,
        error |-> None,
        loading |-> FALSE,
        show_settings |-> FALSE]

\* The two validation messages (the first without its gear glyph).
MsgApiKeyRequired == <<"API key is required. Click settings to configure.">>
MsgUrlRequired == <<"Original URL is required">>

\* BuildRequest that never sends the domain of the settings.
BuildRequestNoDomain(a) ==
    [original_url |-> a.original_url,
     path |-> IF a.custom_path = "" THEN None ELSE Some(a.custom_path),
     domain |-> None,
     cloaking |-> IF a.cloaking THEN Some(TRUE) ELSE None,
     password |-> IF a.password = "" THEN None ELSE Some(a.password),
     password_contact |-> IF a.password_contact THEN Some(TRUE) ELSE None,
     allow_duplicates |-> FALSE,
     clicks_limit |-> IF a.clicks_limit = "" THEN None ELSE ParseI32(a.clicks_limit),
     redirect_type |-> Some(a.redirect_type),
     tags |-> Some(<<"shortyio">>)]

\* The CreateLinkRequest built from the form (allow_duplicates and tags fixed).
BuildRequest(a) ==
    [original_url |-> a.original_url,
     path |-> IF a.custom_path = "" THEN None ELSE Some(a.custom_path),
     domain |-> IF a.domain = "" THEN None ELSE Some(a.domain),
     cloaking |-> IF a.cloaking THEN Some(TRUE) ELSE None,
     password |-> IF a.password = "" THEN None ELSE Some(a.password),
     password_contact |-> IF a.password_contact THEN Some(TRUE) ELSE None,
     allow_duplicates |-> FALSE,
     clicks_limit |-> IF a.clicks_limit = "" THEN None ELSE ParseI32(a.clicks_limit),
     redirect_type |-> Some(a.redirect_type),
     tags |-> Some(<<"shortyio">>)]

\* A worker thread as std::thread::spawn leaves it: the request and the key
\* moved into its closure, no POST answered yet.
NewTask(a) ==
    [pc |-> "spawned",
     api_key |-> Some(a.api_key),
     request |-> Some(BuildRequest(a)),
     posts |-> 0]

\* create_short_link with the two validation checks in the other order.
create_short_link_url_first(a) ==
    IF a.original_url = EmptyText
    THEN [app |-> [a EXCEPT !.error = Some(MsgUrlRequired)],
          spawned |-> <<>>, status |-> "no_url"]
    ELSE IF a.api_key = ""
    THEN [app |-> [a EXCEPT !.error = Some(MsgApiKeyRequired)],
          spawned |-> <<>>, status |-> "no_api_key"]
    ELSE [app |-> [a EXCEPT !.loading = TRUE, !.error = None, !.result = None],
          spawned |-> <<NewTask(a)>>, status |-> "accepted"]

\* create_short_link resetting loading and result before it validates.
create_short_link_reset_first(a) ==
    IF a.api_key = ""
    THEN [app |-> [a EXCEPT !.error = Some(MsgApiKeyRequired),
                            !.loading = FALSE, !.result = None],
          spawned |-> <<>>, status |-> "no_api_key"]
    ELSE IF a.original_url = EmptyText
    THEN [app |-> [a EXCEPT !.error = Some(MsgUrlRequired),
                            !.loading = FALSE, !.result = None],
          spawned |-> <<>>, status |-> "no_url"]
    ELSE [app |-> [a EXCEPT !.loading = TRUE, !.error = None, !.result = None],
          spawned |-> <<NewTask(a)>>, status |-> "accepted"]

\* ShortyApp::create_short_link on the app state a: the new app state, the
\* threads it spawns, and which way it returned.
create_short_link(a) ==
    IF a.api_key = ""
    THEN [app |-> [a EXCEPT !.error = Some(MsgApiKeyRequired)],
          spawned |-> <<>>, status |-> "no_api_key"]
    ELSE IF a.original_url = EmptyText
    THEN [app |-> [a EXCEPT !.error = Some(MsgUrlRequired)],
          spawned |-> <<>>, status |-> "no_url"]
    ELSE [app |-> [a EXCEPT !.loading = TRUE, !.error = None, !.result = None],
          spawned |-> <<NewTask(a)>>, status |-> "accepted"]

\* ----------------------------------------------------------- the mailbox
\* The three temp-data entries of the egui context: absent (None) or
\* present with a value of the entry's type.
EmptySlot == [result |-> None, error |-> None, loading |-> None]

\* resp.json::<LinkResponse>().await: the body is read, then parsed.
ResponseJson(body) ==
    IF ~body.read_ok THEN [ok |-> FALSE, err |-> "error reading response body"]
    ELSE ParseLinkResponse(body.text)

\* resp.text().await.unwrap_or_default()
ResponseText(body) == IF body.read_ok THEN body.text ELSE <<>>

\* Outcome without the is_success test: any body that parses is a success.
OutcomeNoStatusTest(resp, body) ==
    IF resp.kind = "err"
    THEN [result |-> Some(None),
          error |-> Some(Some(<<"Request failed: ", resp.err>>)),
          loading |-> Some(FALSE)]
    ELSE LET j == ResponseJson(body)
         IN IF j.ok
            THEN [result |-> Some(Some(j.link)),
                  error |-> Some(None),
                  loading |-> Some(FALSE)]
            ELSE [result |-> Some(None),
                  error |-> Some(Some(<<"Failed to parse response: ", j.err>>)),
                  loading |-> Some(FALSE)]

\* The match on the response in the worker: the three entries it inserts.
Outcome(resp, body) ==
    IF resp.kind = "err"
    THEN [result |-> Some(None),
          error |-> Some(Some(<<"Request failed: ", resp.err>>)),
          loading |-> Some(FALSE)]
    ELSE IF IsSuccess(resp.status)
    THEN LET j == ResponseJson(body)
         IN IF j.ok
            THEN [result |-> Some(Some(j.link)),
                  error |-> Some(None),
                  loading |-> Some(FALSE)]
            ELSE [result |-> Some(None),
                  error |-> Some(Some(<<"Failed to parse response: ", j.err>>)),
                  loading |-> Some(FALSE)]
    ELSE [result |-> Some(None),
          error |-> Some(Some(<<"API error ">> \o StatusDisplay(resp.status)
                               \o <<": ">> \o ResponseText(body))),
          loading |-> Some(FALSE)]

\* Drain that takes the result entry and drops the other two.
DrainResultOnly(a, s) ==
    [a EXCEPT !.result = IF s.result # None THEN s.result[1] ELSE @]

\* The head of ShortyApp::update: every entry present is copied into the
\* app state and removed.
Drain(a, s) ==
    [a EXCEPT !.result = IF s.result # None THEN s.result[1] ELSE @,
              !.error = IF s.error # None THEN s.error[1] ELSE @,
              !.loading = IF s.loading # None THEN s.loading[1] ELSE @]

\* ------------------------------------------------------------------ state
VARIABLES
    app,          \* the ShortyApp struct
    slot,         \* the temp-data entries "result", "error", "loading"
    tasks,        \* the worker threads, in the order they were spawned; pc is
                  \* "spawned", "responded", "done" or "killed", posts the
                  \* number of POSTs the worker has issued
    repaint,      \* a repaint requested through ctx.request_repaint, not yet run
    phase,        \* "running", or "exited" once main has returned
    config_file,  \* the settings file: None when missing, else its content
    clipboard,    \* the clipboard as read at startup
    edits,        \* number of field edits so far
    accepted,     \* number of calls of create_short_link that passed validation
    delivered,    \* the worker, reply and body behind the outcome in the slot
    shown,        \* the same for the outcome the app state last took from it
    last          \* the step just taken

vars == <<app, slot, tasks, repaint, phase, config_file, clipboard, edits,
          accepted, delivered, shown, last>>

\* last: act is "init", "frame" or "worker"; for a frame that called
\* create_short_link, call is the way it returned, trigger the widget that
\* called it and pre the app state it was called on; for the frame of the
\* Save button trigger is "save".
NoStep == [act |-> "init", call |-> "none", trigger |-> "", pre |-> None]
WorkerStep == [act |-> "worker", call |-> "none", trigger |-> "", pre |-> None]

Init ==
    /\ config_file \in InitialFiles
    /\ clipboard \in Clipboards
    /\ app = ShortyAppDefault(config_file, clipboard)
    /\ slot = EmptySlot
    /\ tasks = <<>>
    /\ repaint = FALSE
    /\ phase = "running"
    /\ edits = 0
    /\ accepted = 0
    /\ delivered = None
    /\ shown = None
    /\ last = NoStep

\* ----------------------------------------------------------------- frames
\* The app state once the head of update has drained the mailbox.
Drained == Drain(app, slot)

\* The end of the process takes the detached workers with it: those that
\* have not finished stop where they are, the ones in posted with their
\* POST already on its way.
Killed(ts, posted) ==
    [t \in DOMAIN ts |->
       IF ts[t].pc = "done" THEN ts[t]
       ELSE [ts[t] EXCEPT !.pc = "killed", !.api_key = None, !.request = None,
                          !.posts = IF t \in posted THEN 1 ELSE @]]

\* One call of ShortyApp::update: the drain, then the widgets acting on one
\* event, leaving app state a; call tells how create_short_link returned
\* when the event called it and trigger which widget called it, spawned the
\* threads it started, close whether Escape was pressed, file the settings
\* file left behind, edited the number of fields the event changed.
Frame(a, call, trigger, spawned, close, file, edited) ==
    /\ phase = "running"
    /\ Len(tasks) + Len(spawned) <= MaxTasks
    /\ edits + edited <= MaxEdits
    /\ app' = a
    /\ slot' = EmptySlot
    /\ delivered' = None
    /\ shown' = IF call = "accepted" THEN None
                ELSE IF slot # EmptySlot THEN delivered ELSE shown
    /\ tasks' \in IF close
                   THEN {Killed(tasks, posted) :
                           posted \in SUBSET {t \in DOMAIN tasks : tasks[t].pc = "spawned"}}
                   ELSE {tasks \o spawned}
    /\ accepted' = accepted + (IF call = "accepted" THEN 1 ELSE 0)
    /\ repaint' = FALSE
    /\ phase' = IF close THEN "exited" ELSE "running"
    /\ config_file' = file
    /\ edits' = edits + edited
    /\ last' = [act |-> "frame",
                call |-> call,
                trigger |-> trigger,
                pre |-> IF call = "none" THEN None ELSE Some(Drained)]
    /\ UNCHANGED clipboard

\* A frame in which no widget reacts.
FrameIdle == Frame(Drained, "none", "", <<>>, FALSE, config_file, 0)

\* Escape pressed: ViewportCommand::Close is sent, run_native returns after
\* the frame and main returns with it.
FrameEscape == Frame(Drained, "none", "", <<>>, TRUE, config_file, 0)

\* The settings button.
FrameOpenSettings ==
    Frame([Drained EXCEPT !.show_settings = TRUE],
          "none", "", <<>>, FALSE, config_file, 0)

\* Typing in the settings window: the text fields are bound to
\* self.api_key and self.domain.
FrameEditSettings ==
    /\ Drained.show_settings
    /\ \/ \E k \in ApiKeys \ {Drained.api_key} :
            Frame([Drained EXCEPT !.api_key = k],
                  "none", "", <<>>, FALSE, config_file, 1)
       \/ \E d \in Domains \ {Drained.domain} :
            Frame([Drained EXCEPT !.domain = d],
                  "none", "", <<>>, FALSE, config_file, 1)

\* How Config::save can end: Ok with the file written; Err before the file
\* is opened (no config path, create_dir_all or the open fails), the file
\* as it was; Err while writing, the file truncated by the open and cut
\* short.
SaveOutcomes == {"written", "not_opened", "cut_short"}

CutShort == <<"{", "api_key">>

\* Config::save, by the way it ends.
ConfigSave(c, file, io) ==
    CASE io = "written" -> Some(SerializeConfig(c))
      [] io = "not_opened" -> file
      [] io = "cut_short" -> Some(CutShort)

\* The Save button of the settings window.
FrameSave ==
    /\ Drained.show_settings
    /\ \E io \in SaveOutcomes :
         Frame([Drained EXCEPT !.show_settings = FALSE], "none", "save", <<>>, FALSE,
               ConfigSave([api_key |-> Drained.api_key, domain |-> Drained.domain],
                          config_file, io), 0)

\* The Cancel button of the settings window.
FrameCancel ==
    /\ Drained.show_settings
    /\ Frame([Drained EXCEPT !.show_settings = FALSE],
             "none", "", <<>>, FALSE, config_file, 0)

\* Typing in the URL or custom-path field, or changing an advanced option.
FrameEditForm ==
    \/ \E v \in Urls \ {Drained.original_url} :
         Frame([Drained EXCEPT !.original_url = v],
               "none", "", <<>>, FALSE, config_file, 1)
    \/ \E v \in Paths \ {Drained.custom_path} :
         Frame([Drained EXCEPT !.custom_path = v],
               "none", "", <<>>, FALSE, config_file, 1)
    \/ Frame([Drained EXCEPT !.cloaking = ~@],
             "none", "", <<>>, FALSE, config_file, 1)
    \/ \E v \in Passwords \ {Drained.password} :
         Frame([Drained EXCEPT !.password = v],
               "none", "", <<>>, FALSE, config_file, 1)
    \/ Frame([Drained EXCEPT !.password_contact = ~@],
             "none", "", <<>>, FALSE, config_file, 1)
    \/ \E v \in ClicksTexts \ {Drained.clicks_limit} :
         Frame([Drained EXCEPT !.clicks_limit = v],
               "none", "", <<>>, FALSE, config_file, 1)
    \/ \E v \in RedirectTypes \ {Drained.redirect_type} :
         Frame([Drained EXCEPT !.redirect_type = v],
               "none", "", <<>>, FALSE, config_file, 1)

\* A frame whose widget calls create_short_link.
FrameSubmit(trigger) ==
    LET r == create_short_link(Drained)
    IN Frame(r.app, r.status, trigger, r.spawned, FALSE, config_file, 0)

\* Enter pressed as the URL field loses focus.
FrameEnterUrl == FrameSubmit("enter")

\* Enter pressed as the custom-path field loses focus.
FrameEnterPath == FrameSubmit("enter")

\* The Create button, which add_enabled disables while loading.
FrameClickCreate ==
    /\ ~Drained.loading
    /\ FrameSubmit("click_create")

\* ---------------------------------------------------------------- workers
TaskStep(t, new) ==
    /\ tasks' = [tasks EXCEPT ![t] = new]
    /\ last' = WorkerStep

\* A worker that starts over after an error outcome.
WorkerEndRetry(task, out) ==
    IF out.error[1] # None THEN [task EXCEPT !.pc = "spawned"]
    ELSE [task EXCEPT !.pc = "done"]

\* The worker's closure returns after the insert and the thread ends.
WorkerEnd(task, out) == [task EXCEPT !.pc = "done"]

\* The worker builds its runtime and client, issues the POST with the
\* request and the key moved into it, send().await returns and the worker
\* calls ctx.request_repaint().  What came back is drawn in TaskWrite, where
\* the worker first looks at it.
TaskRespond(t) ==
    /\ phase # "exited"
    /\ tasks[t].pc = "spawned"
    /\ TaskStep(t, [tasks[t] EXCEPT !.pc = "responded", !.posts = @ + 1,
                                    !.api_key = None, !.request = None])
    /\ repaint' = TRUE
    /\ UNCHANGED <<app, slot, phase, config_file, clipboard, edits, accepted,
                   delivered, shown>>

\* TaskWrite that leaves an outcome already in the slot where it is.
TaskWriteFirstWins(t) ==
    /\ phase # "exited"
    /\ tasks[t].pc = "responded"
    /\ \E resp \in Responses : \E body \in BodyReads(resp) :
         /\ slot' = IF slot = EmptySlot THEN Outcome(resp, body) ELSE slot
         /\ delivered' = IF slot = EmptySlot
                          THEN Some([task |-> t, resp |-> resp, body |-> body])
                          ELSE delivered
         /\ TaskStep(t, WorkerEnd(tasks[t], Outcome(resp, body)))
    /\ UNCHANGED <<app, repaint, phase, config_file, clipboard, edits, accepted, shown>>

\* The worker matches on what send() returned (resp), reads the body where
\* it needs it, inserts the three entries of its outcome under the
\* context's lock, and ends.
TaskWrite(t) ==
    /\ phase # "exited"
    /\ tasks[t].pc = "responded"
    /\ \E resp \in Responses : \E body \in BodyReads(resp) :
         /\ slot' = Outcome(resp, body)
         /\ delivered' = Some([task |-> t, resp |-> resp, body |-> body])
         /\ TaskStep(t, WorkerEnd(tasks[t], Outcome(resp, body)))
    /\ UNCHANGED <<app, repaint, phase, config_file, clipboard, edits, accepted, shown>>

Next ==
    \/ FrameIdle
    \/ FrameEscape
    \/ FrameOpenSettings
    \/ FrameEditSettings
    \/ FrameSave
    \/ FrameCancel
    \/ FrameEditForm
    \/ FrameEnterUrl
    \/ FrameEnterPath
    \/ FrameClickCreate
    \/ \E t \in DOMAIN tasks : TaskRespond(t)
    \/ \E t \in DOMAIN tasks : TaskWrite(t)

Spec == Init /\ [][Next]_vars

\* ---------------------------------------------------------------- startup
\* The process before ShortyApp::default has run: the settings file and the
\* clipboard are what the user left there, the app state does not exist yet.
NotConstructed == None

InitStartup ==
    /\ config_file \in StartupFiles
    /\ clipboard \in StartupClipboards
    /\ app = NotConstructed
    /\ slot = EmptySlot
    /\ tasks = <<>>
    /\ repaint = FALSE
    /\ phase = "starting"
    /\ edits = 0
    /\ accepted = 0
    /\ delivered = None
    /\ shown = None
    /\ last = NoStep

\* run_native calls the creator closure, which builds ShortyApp::default().
Startup ==
    /\ phase = "starting"
    /\ app' = ShortyAppDefault(config_file, clipboard)
    /\ phase' = "running"
    /\ UNCHANGED <<slot, tasks, repaint, config_file, clipboard, edits,
                   accepted, delivered, shown, last>>

StartupSpec == InitStartup /\ [][Startup]_vars

\* ================================================================ claims
\* msg has part as a contiguous piece.
Includes(msg, part) ==
    \E i \in 0..(Len(msg) - Len(part)) : SubSeq(msg, i + 1, i + Len(part)) = part

\* The worker t has been started and has not written its outcome yet.
InFlight(t) == tasks[t].pc \in {"spawned", "responded"}

\* The outcome of worker t is in the slot, not yet drained.
Undrained(t) == delivered # None /\ delivered[1].task = t

\* The submission behind worker t has no outcome recorded in the app state yet.
Unrecorded(t) == InFlight(t) \/ Undrained(t)

\* The last step was a frame in which create_short_link was called.
Called == last.act = "frame" /\ last.call # "none"

\* C1: at most one background request is outstanding, and every call of
\* create_short_link that starts a request was made with loading false.
C1_SubmitOnlyWhenIdle ==
    /\ Cardinality({t \in DOMAIN tasks : InFlight(t)}) <= 1
    /\ (Called /\ last.call = "accepted") => ~last.pre[1].loading

\* C2: a call of create_short_link with an empty API key or an empty URL
\* ends with the validation message in the error field (the API-key message
\* when both are empty), starts no worker and issues no POST.
C2_ValidationShortCircuits ==
    [][(/\ last'.act = "frame"
        /\ last'.call # "none"
        /\ \/ last'.pre[1].api_key = ""
           \/ last'.pre[1].original_url = EmptyText)
       => /\ app'.error = Some(IF last'.pre[1].api_key = ""
                               THEN MsgApiKeyRequired ELSE MsgUrlRequired)
          /\ last'.call # "accepted"
          /\ Len(tasks') = Len(tasks)
          /\ \A t \in DOMAIN tasks : tasks'[t].posts = tasks[t].posts]_vars

C2_Witness ==
    /\ Called
    /\ last.pre[1].api_key = ""
    /\ last.pre[1].original_url = EmptyText
    /\ app.error = Some(MsgApiKeyRequired)

\* C3: a call of create_short_link that fails validation changes only the
\* error message: loading, the displayed result, the form fields and the
\* settings in memory are as the call found them, the slot is as the drain
\* left it, no worker is added and the settings file is not written.
C3_ValidationFrame ==
    [][(/\ last'.act = "frame"
        /\ last'.call \in {"no_api_key", "no_url"})
       => /\ app' = [last'.pre[1] EXCEPT !.error = app'.error]
          /\ slot' = EmptySlot
          /\ tasks' = tasks
          /\ config_file' = config_file]_vars

C3_Witness ==
    /\ Called
    /\ last.call = "no_url"
    /\ app.result # None
    /\ app.error = Some(MsgUrlRequired)

\* C4: loading is true right after a submission is accepted, stays true
\* for as long as that submission's outcome has not been recorded by a
\* frame's drain, and is false once a frame has recorded an outcome without
\* accepting a new submission.
C4_LoadingUntilRecorded ==
    [][/\ (last'.act = "frame" /\ last'.call = "accepted") => app'.loading
       /\ \A t \in DOMAIN tasks : (Unrecorded(t) /\ Unrecorded(t)') => app'.loading
       /\ (/\ last'.act = "frame"
           /\ last'.call # "accepted"
           /\ slot # EmptySlot
           /\ \A t \in DOMAIN tasks' : ~Unrecorded(t)') => ~app'.loading]_vars

SlotMessage == slot.error[1][1]

\* The slot holds an error outcome: a message, no result, loading false.
SlotIsError ==
    /\ slot.error # None /\ slot.error[1] # None
    /\ slot.result = Some(None)
    /\ slot.loading = Some(FALSE)

\* The slot holds a success outcome: a result, no error, loading false.
SlotIsSuccess ==
    /\ slot.result # None /\ slot.result[1] # None
    /\ slot.error = Some(None)
    /\ slot.loading = Some(FALSE)

\* The body was read and is a JSON object with both fields of LinkResponse.
Parseable(body) ==
    /\ body.read_ok
    /\ IsObject(body.text)
    /\ HasField(body.text, "shortURL")
    /\ HasField(body.text, "originalURL")

\* The outcome in the slot, by what its worker got back (resp, body), with
\* text the body text a non-2xx error has to include.
OutcomeMatchesReply(resp, body, text) ==
    IF resp.kind = "err"
    THEN SlotIsError /\ Includes(SlotMessage, <<resp.err>>)
    ELSE IF ~IsSuccess(resp.status)
    THEN /\ SlotIsError
         /\ Includes(SlotMessage, <<ToString(resp.status)>>)
         /\ Includes(SlotMessage, text)
    ELSE IF ~Parseable(body)
    THEN SlotIsError /\ Includes(SlotMessage, <<ResponseJson(body).err>>)
    ELSE SlotIsSuccess

\* C6 as stated: the outcome a worker writes is, in this order, the
\* transport error, else for a non-2xx status an error with the numeric
\* status and the raw body text of the response, else for an unparsable 2xx
\* body the parser's error, else the success; errors carry no result and
\* every outcome sets loading to false.
C6_RawBodyInApiError ==
    delivered # None =>
        OutcomeMatchesReply(delivered[1].resp, delivered[1].body,
                            delivered[1].body.text)

\* C6 amended: as above, but the text a non-2xx error includes is the body
\* as the worker read it, which is the empty text when the read failed.
C6_OutcomeByReply ==
    delivered # None =>
        OutcomeMatchesReply(delivered[1].resp, delivered[1].body,
                            IF delivered[1].body.read_ok
                            THEN delivered[1].body.text ELSE <<>>)

C6_Witness ==
    /\ delivered # None
    /\ delivered[1].resp.kind = "resp"
    /\ ~IsSuccess(delivered[1].resp.status)
    /\ ~delivered[1].body.read_ok
    /\ delivered[1].body.text # <<>>
    /\ SlotIsError

\* C7: a displayed LinkResult comes from a 2xx reply whose body was read
\* and parsed, and holds that body's shortURL and originalURL.
C7_ResultFromParsedReply ==
    app.result # None =>
        /\ shown # None
        /\ shown[1].resp.kind = "resp"
        /\ IsSuccess(shown[1].resp.status)
        /\ Parseable(shown[1].body)
        /\ app.result[1].short_url = Field(shown[1].body.text, "shortURL")
        /\ app.result[1].original_url = Field(shown[1].body.text, "originalURL")

C7_Witness ==
    /\ app.result # None
    /\ shown # None
    /\ app.result[1].short_url = "https://s/1"
    /\ ~app.loading

\* C8: once a worker has written its outcome a redraw request is pending,
\* so the outcome is drained without waiting for some other event: while an
\* outcome sits in the slot, a requested repaint is outstanding.
C8_RepaintAfterWrite == (phase = "running" /\ slot # EmptySlot) => repaint

\* C9: whenever an error is displayed, loading is false, so the Create
\* button is enabled and a new submission can be made.
C9_ErrorLeavesIdle == app.error # None => ~app.loading

\* C10: once an outcome has been drained and loading is false, a frame that
\* does not call create_short_link leaves the displayed result and error
\* as they were.
C10_OutcomeStaysUntilSubmit ==
    [][(/\ shown # None
        /\ ~app.loading
        /\ last'.act = "frame"
        /\ last'.call = "none")
       => /\ app'.result = app.result
          /\ app'.error = app.error]_vars

\* The post-drain app state of the frame just taken: the state
\* create_short_link was called on, or the state the frame left when no
\* widget called it (no widget but create_short_link writes result, error
\* or loading).
AfterDrain == IF last.call = "none" THEN app ELSE last.pre[1]

\* C11: the API key and the domain in memory, which the next submission
\* uses, and the settings file change in no step but the frame of the Save
\* button; so without a Save they stay as loaded at startup.
C11_SettingsChangeOnlyOnSave ==
    [][(last'.trigger # "save")
       => /\ app'.api_key = app.api_key
          /\ app'.domain = app.domain
          /\ config_file' = config_file]_vars

\* Serialising any pair and deserialising the text gives the pair back.
RoundTrip ==
    \A k \in ApiKeys : \A d \in Domains :
        DeserializeConfig(SerializeConfig([api_key |-> k, domain |-> d]))
            = Some([api_key |-> k, domain |-> d])

IsHttpText(text) == Len(text) >= 1 /\ text[1] \in {"http://", "https://"}

\* C13: after construction the URL field holds the clipboard text when
\* that text starts with http:// or https://, and is empty for any other
\* text and for an unreadable clipboard; loading is false and there is no
\* result and no error.
C13_ClipboardPrefill ==
    phase = "running" =>
        /\ app.original_url = IF clipboard # None /\ IsHttpText(clipboard[1])
                              THEN clipboard[1] ELSE EmptyText
        /\ ~app.loading
        /\ app.result = None
        /\ app.error = None

C13_Witness ==
    /\ phase = "running"
    /\ clipboard = Some(<<"http://", "example.com/x">>)
    /\ app.original_url = <<"http://", "example.com/x">>
    /\ ~app.loading

\* C14: a worker that writes its outcome replaces whatever the slot holds,
\* whichever submission that came from: after the write the slot holds the
\* writer's outcome, so the worker that finishes last decides what the next
\* frame shows.
C14_LastWriterWins ==
    [][\A t \in DOMAIN tasks :
         (tasks[t].pc = "responded" /\ tasks'[t].pc = "done")
         => /\ delivered' # None
            /\ delivered'[1].task = t
            /\ slot' = Outcome(delivered'[1].resp, delivered'[1].body)]_vars

\* Two submissions overlapped, both workers have finished, and what the UI
\* shows is the outcome of the first.
C14_Witness ==
    /\ accepted = 2
    /\ Len(tasks) = 2
    /\ tasks[1].pc = "done"
    /\ tasks[2].pc = "done"
    /\ slot = EmptySlot
    /\ shown # None
    /\ shown[1].task = 1
    /\ app.result = Outcome(shown[1].resp, shown[1].body).result[1]
    /\ app.error = Outcome(shown[1].resp, shown[1].body).error[1]

\* C15: the slot is empty or holds all three entries of one worker's
\* outcome; every frame leaves it empty, and the app state after the
\* frame's drain has result, error and loading all three as before (empty
\* slot) or all three from the one outcome the slot held.
C15_SlotAtomic ==
    [][/\ \/ slot' = EmptySlot
          \/ /\ slot'.result # None
             /\ slot'.error # None
             /\ slot'.loading # None
             /\ delivered' # None
             /\ slot' = Outcome(delivered'[1].resp, delivered'[1].body)
       /\ (last'.act = "frame")
          => /\ slot' = EmptySlot
             /\ IF slot = EmptySlot
                THEN /\ AfterDrain'.result = app.result
                     /\ AfterDrain'.error = app.error
                     /\ AfterDrain'.loading = app.loading
                ELSE /\ AfterDrain'.result = slot.result[1]
                     /\ AfterDrain'.error = slot.error[1]
                     /\ AfterDrain'.loading = slot.loading[1]]_vars

\* A frame has just drained an error outcome while another worker was
\* still in flight.
C15_Witness ==
    /\ last.act = "frame"
    /\ last.call = "none"
    /\ shown # None
    /\ slot = EmptySlot
    /\ app.error # None
    /\ app.error = Outcome(shown[1].resp, shown[1].body).error[1]
    /\ app.result = None
    /\ ~app.loading
    /\ \E t \in DOMAIN tasks : InFlight(t)

\* The request r and key k are the snapshot of the app state p.
SnapshotOf(r, k, p) ==
    /\ k = Some(p.api_key)
    /\ r # None
    /\ r[1].original_url = p.original_url
    /\ r[1].path = (IF p.custom_path = "" THEN None ELSE Some(p.custom_path))
    /\ r[1].domain = (IF p.domain = "" THEN None ELSE Some(p.domain))
    /\ r[1].cloaking = (IF p.cloaking THEN Some(TRUE) ELSE None)
    /\ r[1].password = (IF p.password = "" THEN None ELSE Some(p.password))
    /\ r[1].password_contact = (IF p.password_contact THEN Some(TRUE) ELSE None)
    /\ r[1].clicks_limit = (IF p.clicks_limit = "100" THEN Some(100) ELSE None)
    /\ r[1].redirect_type = Some(p.redirect_type)

\* C16: the worker started by an accepted submission holds the request and
\* the key built from the app state at that moment; until the worker has
\* sent them no step changes them, whatever is edited meanwhile; and
\* nothing but a worker's write puts an outcome into the slot.
C16_SnapshotAtSubmission ==
    [][/\ (last'.act = "frame" /\ last'.call = "accepted")
          => /\ Len(tasks') = Len(tasks) + 1
             /\ tasks'[Len(tasks')].pc = "spawned"
             /\ SnapshotOf(tasks'[Len(tasks')].request,
                           tasks'[Len(tasks')].api_key, last'.pre[1])
       /\ \A t \in DOMAIN tasks :
            (tasks[t].pc = "spawned" /\ tasks'[t].pc = "spawned")
            => /\ tasks'[t].request = tasks[t].request
               /\ tasks'[t].api_key = tasks[t].api_key
       /\ (slot' # EmptySlot /\ slot' # slot) => last'.act = "worker"]_vars

\* A worker has not sent yet and holds the URL of its submission, while
\* the URL field has been emptied since.
C16_Witness ==
    \E t \in DOMAIN tasks :
        /\ tasks[t].pc = "spawned"
        /\ tasks[t].request # None
        /\ tasks[t].request[1].original_url = <<"https://", "a">>
        /\ app.original_url = EmptyText
        /\ last.act = "frame"

\* C17: no worker is ever stopped before it has written its outcome to the
\* slot, whatever the UI does after the submission, closing included.
C17_NeverCancelled == \A t \in DOMAIN tasks : tasks[t].pc # "killed"

\* C18: the app state never holds a result and an error at once.
C18_ResultXorError == ~(app.result # None /\ app.error # None)

\* C19: while the app runs, loading is true whenever a worker is in flight
\* or an outcome waits in the slot.
C19_LoadingReflectsWork ==
    (/\ phase = "running"
     /\ \/ \E t \in DOMAIN tasks : InFlight(t)
        \/ slot # EmptySlot)
    => app.loading

====
